---- MODULE Spec2Model ----
\* A model of the two pastebin servers of the repository:
\*   variant "disk" : the diskv-backed server (src/unnamed/part_000)
\*   variant "ipfs" : the IPFS-backed server  (src/upldis.go)
\* Strings the code inspects character by character (file names, keys) are
\* sequences of one-character strings.  A payload is [len, tag]: its length
\* in bytes and a tag telling apart contents of the same length.
EXTENDS Integers, Sequences, FiniteSets, TLC

VARIABLES
    variant,    \* which server is running: "disk" or "ipfs"
    faults,     \* environment: backend calls that failed so far (I/O error,
                \* ipfs or its daemon not answering)
    reqs,       \* the requests accepted so far, in arrival order, each with its
                \* handler's local variables, position and response
    disk,       \* disk variant: basePath/_<dir>/<key> -> stored bytes
    staging,    \* ipfs variant: pastes/<id> -> staged file or directory
    ipfs,       \* ipfs variant: objects added to the node
    wp          \* one writePaste call of the disk variant followed on its own:
                \* its file name, its locals name and key, and its position

vars == <<variant, faults, reqs, disk, staging, ipfs, wp>>

-----------------------------------------------------------------------------
\* Program constants

minPasteSize == 16
maxPasteSize == 1073741824
urlLength == 4
cacheSize == 134217728
urlCharset ==
    << "A","B","C","D","E","F","G","H","I","J","K","L","M",
       "N","O","P","Q","R","S","T","U","V","W","X","Y","Z",
       "a","b","c","d","e","f","g","h","i","j","k","l","m",
       "n","o","p","q","r","s","t","u","v","w","x","y","z",
       "0","1","2","3","4","5","6","7","8","9" >>

StatusOK == 200
StatusNotFound == 404
StatusNotAcceptable == 406
StatusInternalServerError == 500

-----------------------------------------------------------------------------
\* Bounds of the model

MaxRequests == 3    \* requests per behaviour, disk variant
MaxIpfsRequests == 2    \* requests per behaviour, ipfs variant
NumRuns == 2        \* distinct outcomes of the four rand.Intn draws of a newID
NumTags == 1        \* distinct contents per payload length
MaxNameLen == 1     \* length of an uploaded file name
MaxFaults == 1      \* backend calls that fail per behaviour
MaxKeyNameLen == 5  \* length of a file name, for the key derivation alone

-----------------------------------------------------------------------------
\* Inputs

Dirs == {"", "temp", "md"}
Queries == IF variant = "disk" THEN {"", "go"} ELSE {"", "md", "go"}
NameChars == {"a", "."}
\* vars["file"]: the router cleans the path, so "." and ".." never get here.
Names ==
    UNION { [1..n -> NameChars] : n \in 0..MaxNameLen } \ {<<".">>, <<".", ".">>}

Lens == {minPasteSize - 1, minPasteSize, maxPasteSize, maxPasteSize + 1}
Payloads == [len : Lens, tag : 1..NumTags]
NoPaste == [len |-> 0, tag |-> 0]
Absent == [len |-> 0 - 1, tag |-> 0]      \* no file at a path

\* The outcomes of the urlLength draws rand.Intn(len(urlCharset)) of one newID.
IntnRuns ==
    { [i \in 1..urlLength |-> (k * (i + 1)) % Len(urlCharset)] : k \in 0..(NumRuns - 1) }

-----------------------------------------------------------------------------
\* ID generator and key derivation

\* newID(): urlLength characters of urlCharset, one per rand.Intn draw.
newID(run) == [i \in 1..urlLength |-> urlCharset[run[i] + 1]]

\* The regular expression reg = (\.[^.]+)$ tried at position i of s: a dot,
\* then the longest run of non-dot characters (at least one), then the end of
\* the text.  The result is the end of the match, 0 when there is none.
regMatchEnd(s, i) ==
    IF s[i] # "." THEN 0
    ELSE LET stops == {j \in (i + 1)..Len(s) : s[j] = "."}
             e == IF stops = {} THEN Len(s)
                  ELSE (CHOOSE j \in stops : \A k \in stops : j <= k) - 1
         IN  IF e > i /\ e = Len(s) THEN e ELSE 0

\* Variant: the expression without its anchor, (\.[^.]+): the leftmost dot
\* that a non-dot character follows, up to the next dot.
regFindStringUnanchored(s) ==
    LET starts == {i \in 1..(Len(s) - 1) : s[i] = "." /\ s[i + 1] # "."}
    IN  IF starts = {} THEN << >>
        ELSE LET i == CHOOSE j \in starts : \A k \in starts : j <= k
                 stops == {j \in (i + 1)..Len(s) : s[j] = "."}
                 e == IF stops = {} THEN Len(s)
                      ELSE (CHOOSE j \in stops : \A k \in stops : j <= k) - 1
             IN  SubSeq(s, i, e)

\* reg.FindString(s): the text of the leftmost match, "" when nothing matches.
regFindString(s) ==
    LET starts == {i \in 1..Len(s) : regMatchEnd(s, i) # 0}
    IN  IF starts = {} THEN << >>
        ELSE LET i == CHOOSE j \in starts : \A k \in starts : j <= k
             IN  SubSeq(s, i, regMatchEnd(s, i))

\* File names for the key derivation followed on its own.
KeyNames == UNION { [1..n -> NameChars] : n \in 0..MaxKeyNameLen }

IDs == {newID(run) : run \in IntnRuns}
Exts == {regFindString(n) : n \in Names}
KeySpace == {id \o e : id \in IDs, e \in Exts}

-----------------------------------------------------------------------------
\* Requests

\* An IPFS object: a file (blob) or a directory of named files.  Its hash
\* stands for exactly its content.
Blob(content) == [blob |-> content, files |-> {}]
Tree(files) == [blob |-> Absent, files |-> files]
Hash(obj) == [cid |-> obj]
NoHash == [cid |-> Blob(Absent)]

\* A key: a string in the disk variant, hash or hash/file in the ipfs variant.
NoKey == IF variant = "disk" THEN << >> ELSE [hash |-> NoHash, file |-> << >>]
IpfsKey(hash, file) == [hash |-> hash, file |-> file]

NoBody == [kind |-> "none", of |-> NoPaste, key |-> NoKey, lexer |-> "", msg |-> ""]
NoHighlight == [run |-> FALSE, lexer |-> "", title |-> NoKey, failed |-> FALSE]

\* A request as the router hands it to a handler: vars["dir"], vars["file"],
\* req.URL.RawQuery and the body, with the handler's locals still unset.
NewReq(op, dir, file, query, data) ==
    [ op     |-> op,        \* "put", "post" or "get"
      dir    |-> dir,       \* vars["dir"]
      file   |-> file,      \* vars["file"]
      hash   |-> NoHash,    \* vars["hash"]
      query  |-> query,     \* req.URL.RawQuery
      data   |-> data,      \* the uploaded bytes
      name   |-> << >>,     \* writePaste's name
      key    |-> NoKey,     \* writePaste's key
      tmp    |-> << >>,     \* writePaste's temp_dir, below pastes/
      fd     |-> 0,         \* the file os.Create opened
      err    |-> "",        \* the error writePaste / readPaste returned
      paste  |-> NoPaste,   \* what readPaste returned
      cached |-> FALSE,     \* the key is in this request's diskv cache
      pc     |-> "start",
      status |-> 0,
      ctype  |-> "",
      body   |-> NoBody,
      hl     |-> NoHighlight,    \* the Highlight call made, if any
      execs  |-> 0,         \* subprocesses started
      alone  |-> \A k \in 1..Len(reqs) : reqs[k].pc = "done" ]
                            \* history: every earlier request had been answered
                            \* when this one arrived

ErrorBody(msg) == [NoBody EXCEPT !.kind = "err", !.msg = msg]
UrlBody(key) == [NoBody EXCEPT !.kind = "url", !.key = key]

\* http.Error(w, msg, code)
HttpError(r, msg, code) ==
    [r EXCEPT !.status = code, !.ctype = "text/plain; charset=utf-8",
              !.body = ErrorBody(msg), !.pc = "done"]

-----------------------------------------------------------------------------
\* Disk backend (one diskv instance per request over basePath/_<dir>)

\* Variant: the existence check always answers "present".
HasAlways(d, dir, key) == TRUE

\* Variant: the existence check always answers "absent".
HasNever(d, dir, key) == FALSE

Has(d, dir, key) == d[dir][key] # NoPaste

\* h.Read(key) by request r: from the instance's cache, else from the file.
DiskRead(d, r, key, ok) ==
    IF r.cached THEN [err |-> "", bytes |-> r.paste]
    ELSE IF ~Has(d, r.dir, key) THEN [err |-> "ENOENT", bytes |-> NoPaste]
    ELSE IF ~ok THEN [err |-> "EIO", bytes |-> NoPaste]
    ELSE [err |-> "", bytes |-> d[r.dir][key]]

\* A value read from disk stays in the cache when it fits CacheSizeMax.
Cacheable(bytes) == bytes.len <= cacheSize

DiskWrite(d, dir, key, data, ok) ==
    IF ok THEN [d EXCEPT ![dir][key] = data] ELSE d

DiskErase(d, dir, key) == [d EXCEPT ![dir][key] = NoPaste]

\* The outcomes a backend call can have: it works, or (FALSE) the
\* environment makes it fail.
Outcomes == IF faults < MaxFaults THEN BOOLEAN ELSE {TRUE}
Fault(ok) == faults' = IF ok THEN faults ELSE faults + 1

-----------------------------------------------------------------------------
\* Paste repository, disk variant

\* Variant: the upper bound taken as exclusive.
writePasteCheckExclusive(data) ==
    IF data.len >= maxPasteSize THEN "pasteTooLarge"
    ELSE IF data.len < minPasteSize THEN "pasteTooSmall"
    ELSE ""

\* Variant: the lower bound not checked.
writePasteCheckNoMin(data) ==
    IF data.len > maxPasteSize THEN "pasteTooLarge" ELSE ""

\* The size check that opens writePaste: the error it returns, "" for none.
writePasteCheck(data) ==
    IF data.len > maxPasteSize THEN "pasteTooLarge"
    ELSE IF data.len < minPasteSize THEN "pasteTooSmall"
    ELSE ""

\* key = newID() + name
writePasteKey(run, name) == newID(run) \o name

\* Variant: only a missing file is pasteNotFound, other errors pass through.
readPastePassThrough(res) ==
    IF res.err = "ENOENT" THEN [paste |-> NoPaste, err |-> "pasteNotFound"]
    ELSE IF res.err # "" THEN [paste |-> NoPaste, err |-> res.err]
    ELSE [paste |-> res.bytes, err |-> ""]

\* readPaste on the backend's answer: any error becomes pasteNotFound.
readPaste(res) ==
    IF res.err # "" THEN [paste |-> NoPaste, err |-> "pasteNotFound"]
    ELSE [paste |-> res.bytes, err |-> ""]

\* The Error() text of the error kinds.
ErrorText(err) ==
    CASE err = "pasteTooLarge" -> "paste too large"
      [] err = "pasteTooSmall" -> "paste too small"
      [] err = "pasteNotFound" -> "404 not found"
      [] OTHER -> err

\* put / post: the status of a failed writePaste.
WriteErrorStatus(err) ==
    IF err \in {"pasteTooLarge", "pasteTooSmall"} THEN StatusNotAcceptable
    ELSE StatusInternalServerError

\* getCompost / read: the answer to a failed readPaste.
ReadError(r, err) ==
    IF err = "pasteNotFound"
    THEN HttpError([r EXCEPT !.err = err], "not found", StatusNotFound)
    ELSE HttpError([r EXCEPT !.err = err], ErrorText(err), StatusInternalServerError)

\* fmt.Fprintf(w, ...) of a body: the first write sends status 200.
Respond(r, ctype, body) ==
    [r EXCEPT !.status = StatusOK, !.ctype = ctype, !.body = body]

\* md.Markdown(paste) and the output of a successful pygmentize run.
Markdown(paste) == [NoBody EXCEPT !.kind = "md", !.of = paste]
Highlighted(paste, lexer, key) ==
    [NoBody EXCEPT !.kind = "hl", !.of = paste, !.lexer = lexer, !.key = key]
Raw(paste) == [NoBody EXCEPT !.kind = "raw", !.of = paste]

\* Highlight(code, lexer, key): runs pygmentize -l<lexer> ... title=<key>.
Highlight(r, lexer, key, ok) ==
    [r EXCEPT !.hl = [run |-> TRUE, lexer |-> lexer, title |-> key, failed |-> ~ok],
              !.execs = @ + 1]

\* Variant: the query string is looked at before the directory.
getRenderQueryFirst(r, hlOK) ==
    IF r.query # ""
    THEN LET h == Highlight(r, r.query, r.file, hlOK)
         IN  IF hlOK
             THEN Respond(h, "text/html; charset=utf-8",
                          Highlighted(r.paste, r.query, r.file))
             ELSE Respond(h, "text/plain; charset=utf-8", Raw(r.paste))
    ELSE IF r.dir = "md"
    THEN Respond(r, "text/html; charset=utf-8", Markdown(r.paste))
    ELSE Respond(r, "text/plain; charset=utf-8", Raw(r.paste))

\* Variant: a failed Highlight keeps its output and the HTML content type.
getRenderNoFallback(r, hlOK) ==
    IF r.dir = "md"
    THEN Respond(r, "text/html; charset=utf-8", Markdown(r.paste))
    ELSE IF r.query # ""
    THEN Respond(Highlight(r, r.query, r.file, hlOK), "text/html; charset=utf-8",
                 Highlighted(r.paste, r.query, r.file))
    ELSE Respond(r, "text/plain; charset=utf-8", Raw(r.paste))

\* getCompost after a successful read: the body and content type.
getRender(r, hlOK) ==
    IF r.dir = "md"
    THEN Respond(r, "text/html; charset=utf-8", Markdown(r.paste))
    ELSE IF r.query # ""
    THEN LET h == Highlight(r, r.query, r.file, hlOK)
         IN  IF hlOK
             THEN Respond(h, "text/html; charset=utf-8",
                          Highlighted(r.paste, r.query, r.file))
             ELSE Respond(h, "text/plain; charset=utf-8", Raw(r.paste))
    ELSE Respond(r, "text/plain; charset=utf-8", Raw(r.paste))

\* Variant: every read is followed by deletePaste, whatever the directory.
afterReadAlways(dir) == "del"

\* Variant: no directory is single-use.
afterReadKeep(dir) == "done"

\* getCompost after the body is sent: deletePaste for the temp directory only.
afterRead(dir) == IF dir = "temp" THEN "del" ELSE "done"

-----------------------------------------------------------------------------
\* Handlers, disk variant

\* put / post up to the first h.Has: the size check, the extension, the key.
PutStart(dir, file, data, run) ==
    /\ variant = "disk"
    /\ Len(reqs) < MaxRequests
    /\ LET r == NewReq("put", dir, << >>, "", data)
           err == writePasteCheck(data)
       IN  reqs' = Append(reqs,
             IF err # ""
             THEN HttpError([r EXCEPT !.err = err], ErrorText(err), WriteErrorStatus(err))
             ELSE LET name == regFindString(file)
                  IN  [r EXCEPT !.name = name, !.key = writePasteKey(run, name),
                                !.pc = "has"])
    /\ UNCHANGED <<wp, variant, faults, disk, staging, ipfs>>

\* put: ioutil.ReadAll(req.Body) failed.
PutBodyError(dir, file) ==
    /\ variant = "disk"
    /\ Len(reqs) < MaxRequests
    /\ reqs' = Append(reqs,
         [Respond(NewReq("put", dir, << >>, "", NoPaste), "", ErrorBody("an error occurred"))
            EXCEPT !.pc = "done"])
    /\ UNCHANGED <<wp, variant, faults, disk, staging, ipfs>>

\* for h.Has(key) { key = newID() + name }
HasLoop(i, run) ==
    /\ reqs[i].pc = "has"
    /\ LET r == reqs[i]
       IN  reqs' = [reqs EXCEPT ![i] =
             IF Has(disk, r.dir, r.key)
             THEN [r EXCEPT !.key = writePasteKey(run, r.name)]
             ELSE [r EXCEPT !.pc = "write"]]
    /\ UNCHANGED <<wp, variant, faults, disk, staging, ipfs>>

\* h.Write(key, data), its error dropped; the handler answers with the URL.
WriteStep(i, ok) ==
    /\ reqs[i].pc = "write"
    /\ disk' = DiskWrite(disk, reqs[i].dir, reqs[i].key, reqs[i].data, ok)
    /\ LET r == reqs[i]
       IN  reqs' = [reqs EXCEPT ![i] =
             [Respond(r, "", UrlBody(r.key)) EXCEPT !.pc = "done"]]
    /\ Fault(ok)
    /\ UNCHANGED <<wp, variant, staging, ipfs>>

\* getCompost up to the response: readPaste, the rendering, the body.
GetStart(dir, file, query, ok, hlOK) ==
    /\ ok \/ Has(disk, dir, file)
    /\ variant = "disk"
    /\ Len(reqs) < MaxRequests
    /\ LET r == NewReq("get", dir, file, query, NoPaste)
           rp == readPaste(DiskRead(disk, r, file, ok))
       IN  reqs' = Append(reqs,
             IF rp.err # "" THEN ReadError(r, rp.err)
             ELSE [getRender([r EXCEPT !.paste = rp.paste,
                                       !.cached = Cacheable(rp.paste)], hlOK)
                     EXCEPT !.pc = afterRead(dir)])
    /\ Fault(ok)
    /\ UNCHANGED <<wp, variant, disk, staging, ipfs>>

\* deletePaste: the read that confirms the key exists.
DelRead(i, ok) ==
    /\ reqs[i].pc = "del"
    /\ ok \/ (~reqs[i].cached /\ Has(disk, reqs[i].dir, reqs[i].file))
    /\ LET r == reqs[i]
       IN  reqs' = [reqs EXCEPT ![i] =
             IF DiskRead(disk, r, r.file, ok).err # ""
             THEN [r EXCEPT !.pc = "done"]
             ELSE [r EXCEPT !.pc = "erase"]]
    /\ Fault(ok)
    /\ UNCHANGED <<wp, variant, disk, staging, ipfs>>

\* deletePaste: h.Erase(key).
EraseStep(i) ==
    /\ reqs[i].pc = "erase"
    /\ disk' = DiskErase(disk, reqs[i].dir, reqs[i].file)
    /\ reqs' = [reqs EXCEPT ![i].pc = "done"]
    /\ UNCHANGED <<wp, variant, faults, staging, ipfs>>

-----------------------------------------------------------------------------
\* IPFS variant: the staging area pastes/ and the node

\* What is at pastes/<id>: nothing, a file, or a directory of files.
NoEntry == [kind |-> "none", ino |-> 0, content |-> Absent,
            files |-> [n \in Names |-> Absent]]
IsEmptyDir(e) == e.kind = "dir" /\ \A n \in Names : e.files[n] = Absent

\* Bytes written at offset 0 of a file holding old: a longer old content
\* keeps its tail, which is neither payload.
Overlay(data, old) ==
    IF data.len >= old.len THEN data ELSE [len |-> old.len, tag |-> 0]

\* os.MkdirAll(temp_dir, 0755)
osMkdirAll(st, id, ok) ==
    IF ~ok THEN [err |-> "EIO", st |-> st]
    ELSE IF st[id].kind = "file" THEN [err |-> "ENOTDIR", st |-> st]
    ELSE [err |-> "", st |-> [st EXCEPT ![id].kind = "dir"]]

\* os.Create(temp_file) by request i: temp_file is temp_dir itself for an
\* unnamed upload, temp_dir/name otherwise.  An existing file is truncated.
osCreate(st, i, id, name, ok) ==
    IF ~ok THEN [err |-> "EIO", st |-> st, fd |-> 0]
    ELSE IF name = << >>
    THEN IF st[id].kind = "dir" THEN [err |-> "EISDIR", st |-> st, fd |-> 0]
         ELSE LET ino == IF st[id].kind = "file" THEN st[id].ino ELSE i
              IN  [err |-> "",
                   st |-> [st EXCEPT ![id] = [NoEntry EXCEPT !.kind = "file", !.ino = ino,
                                                             !.content = NoPaste]],
                   fd |-> ino]
    ELSE IF st[id].kind # "dir" THEN [err |-> "ENOENT", st |-> st, fd |-> 0]
         ELSE [err |-> "", st |-> [st EXCEPT ![id].files[name] = NoPaste], fd |-> i]

\* f.Write(data); f.Close(): the bytes go to the file the descriptor opened,
\* which may no longer be the file at the path.  A write that fails leaves
\* the file as it was; its error is not looked at.
fWrite(st, r, ok) ==
    LET id == r.tmp
    IN  IF ~ok THEN st
        ELSE IF r.name = << >>
        THEN IF st[id].kind = "file" /\ st[id].ino = r.fd
             THEN [st EXCEPT ![id].content = Overlay(r.data, @)]
             ELSE st
        ELSE IF st[id].kind = "dir" /\ st[id].files[r.name] # Absent
             THEN [st EXCEPT ![id].files[r.name] = Overlay(r.data, @)]
             ELSE st

\* os.Remove(temp_dir): a file or an empty directory goes, nothing else.
osRemove(st, id, ok) ==
    IF ~ok THEN [err |-> "EIO", st |-> st]
    ELSE IF st[id].kind = "none" THEN [err |-> "ENOENT", st |-> st]
    ELSE IF st[id].kind = "dir" /\ ~IsEmptyDir(st[id]) THEN [err |-> "ENOTEMPTY", st |-> st]
    ELSE [err |-> "", st |-> [st EXCEPT ![id] = NoEntry]]

RECURSIVE SeqOf(_)
SeqOf(S) == IF S = {} THEN << >>
            ELSE LET x == CHOOSE y \in S : TRUE IN <<x>> \o SeqOf(S \ {x})

\* `ipfs add [-r] path`: the objects it adds and the lines it prints,
\* "added <hash> <path>" per object, the directory last, each ended by \n.
ipfsAdd(st, id, recursive, ok) ==
    LET e == st[id]
        present == {n \in Names : e.files[n] # Absent}
        tree == Tree({<<n, e.files[n]>> : n \in present})
    IN  IF ~ok THEN [err |-> "exit status 1", objs |-> {}, out |-> << >>]
        ELSE IF recursive /\ e.kind = "dir"
        THEN [err |-> "",
              objs |-> {tree} \cup {Blob(e.files[n]) : n \in present},
              out |-> SeqOf({<<"added", Hash(Blob(e.files[n])), <<id, n>> >> : n \in present})
                      \o << <<"added", Hash(tree), <<id>> >>, << "" >> >>]
        ELSE IF e.kind = "file"
        THEN [err |-> "", objs |-> {Blob(e.content)},
              out |-> << <<"added", Hash(Blob(e.content)), <<id>> >>, << "" >> >>]
        ELSE [err |-> "exit status 1", objs |-> {}, out |-> << >>]

\* `ipfs cat key`
ipfsCat(node, key, ok) ==
    IF ~ok THEN [err |-> "exit status 1", bytes |-> NoPaste]
    ELSE IF key.file = << >>
    THEN IF \E o \in node : Hash(o) = key.hash /\ o.blob # Absent
         THEN [err |-> "", bytes |-> key.hash.cid.blob]
         ELSE [err |-> "exit status 1", bytes |-> NoPaste]
    ELSE IF \E o \in node : Hash(o) = key.hash /\ \E f \in o.files : f[1] = key.file
         THEN [err |-> "",
               bytes |-> (CHOOSE f \in key.hash.cid.files : f[1] = key.file)[2]]
         ELSE [err |-> "exit status 1", bytes |-> NoPaste]

\* readPaste of the ipfs variant: any failure of `ipfs cat` is pasteNotFound.
ipfsReadPaste(res) ==
    IF res.err # "" THEN [paste |-> res.bytes, err |-> "pasteNotFound"]
    ELSE [paste |-> res.bytes, err |-> ""]

\* The key writePaste builds from the output of ipfs add.
ipfsKeyOf(out, name) ==
    IF name # << >>
    THEN IpfsKey(out[Len(out) - 1][2], name)      \* lines[len(lines)-2], words[1]
    ELSE IpfsKey(out[1][2], << >>)                \* words[1]

\* fmt.Fprintf(w, "error: %s", pygmentsError{}.Error())
pygmentsErrorBody ==
    "error: unknown pygements lexar shortcode. view available lexars at https://pygments.org/docs/lexers/"

\* handler.read after a successful read.
ipfsRender(r, hlOK) ==
    IF r.query # ""
    THEN IF r.query = "md"
         THEN Respond(r, "text/html; charset=utf-8", Markdown(r.paste))
         ELSE LET h == Highlight(r, r.query, r.key, hlOK)
              IN  IF hlOK
                  THEN Respond(h, "text/html; charset=utf-8",
                               Highlighted(r.paste, r.query, r.key))
                  ELSE Respond(h, "text/html; charset=utf-8", ErrorBody(pygmentsErrorBody))
    ELSE Respond(r, "", Raw(r.paste))

\* A failed writePaste as put / post answer it.
WriteError(r, err) ==
    HttpError([r EXCEPT !.err = err], ErrorText(err), WriteErrorStatus(err))

-----------------------------------------------------------------------------
\* Handlers, ipfs variant

\* put / post up to os.Create: the size check, newID, MkdirAll for a named file.
IpfsPutStart(file, data, run, ok) ==
    /\ ok \/ (writePasteCheck(data) = "" /\ file # << >>)
    /\ variant = "ipfs"
    /\ Len(reqs) < MaxIpfsRequests
    /\ LET r == [NewReq("put", "", file, "", data) EXCEPT !.name = file]
           err == writePasteCheck(data)
           id == newID(run)
           mk == IF file # << >> THEN osMkdirAll(staging, id, ok)
                 ELSE [err |-> "", st |-> staging]
       IN  IF err # ""
           THEN reqs' = Append(reqs, WriteError(r, err)) /\ staging' = staging
           ELSE /\ staging' = mk.st
                /\ reqs' = Append(reqs,
                     IF mk.err # "" THEN WriteError([r EXCEPT !.tmp = id], mk.err)
                     ELSE [r EXCEPT !.tmp = id, !.pc = "create"])
    /\ Fault(ok)
    /\ UNCHANGED <<wp, variant, disk, ipfs>>

\* put: ioutil.ReadAll(req.Body) failed.
IpfsPutBodyError(file) ==
    /\ variant = "ipfs"
    /\ Len(reqs) < MaxIpfsRequests
    /\ reqs' = Append(reqs,
         [Respond(NewReq("put", "", file, "", NoPaste), "", ErrorBody("an error occurred"))
            EXCEPT !.pc = "done"])
    /\ UNCHANGED <<wp, variant, faults, disk, staging, ipfs>>

\* f, err := os.Create(temp_file)
IpfsCreate(i, ok) ==
    /\ reqs[i].pc = "create"
    /\ LET r == reqs[i]
           c == osCreate(staging, i, r.tmp, r.name, ok)
       IN  /\ staging' = c.st
           /\ reqs' = [reqs EXCEPT ![i] =
                IF c.err # "" THEN WriteError(r, c.err)
                ELSE [r EXCEPT !.fd = c.fd, !.pc = "fwrite"]]
    /\ Fault(ok)
    /\ UNCHANGED <<wp, variant, disk, ipfs>>

\* f.Write(data); f.Close()
IpfsWrite(i, ok) ==
    /\ reqs[i].pc = "fwrite"
    /\ staging' = fWrite(staging, reqs[i], ok)
    /\ reqs' = [reqs EXCEPT ![i].pc = "add"]
    /\ Fault(ok)
    /\ UNCHANGED <<wp, variant, disk, ipfs>>

\* exec ipfs add, and the key parsed from its output.
IpfsAdd(i, ok) ==
    /\ reqs[i].pc = "add"
    /\ LET r == [reqs[i] EXCEPT !.execs = @ + 1]
           a == ipfsAdd(staging, r.tmp, r.name # << >>, ok)
       IN  /\ ipfs' = ipfs \cup a.objs
           /\ reqs' = [reqs EXCEPT ![i] =
                IF a.err # "" THEN WriteError(r, a.err)
                ELSE [r EXCEPT !.key = ipfsKeyOf(a.out, r.name), !.pc = "remove"]]
    /\ Fault(ok)
    /\ UNCHANGED <<wp, variant, disk, staging>>

\* err = os.Remove(temp_dir); return; the handler answers.
IpfsRemove(i, ok) ==
    /\ reqs[i].pc = "remove"
    /\ LET r == reqs[i]
           rm == osRemove(staging, r.tmp, ok)
       IN  /\ staging' = rm.st
           /\ reqs' = [reqs EXCEPT ![i] =
                IF rm.err # "" THEN WriteError(r, rm.err)
                ELSE [Respond(r, "", UrlBody(r.key)) EXCEPT !.pc = "done"]]
    /\ Fault(ok)
    /\ UNCHANGED <<wp, variant, disk, ipfs>>

\* handler.read
IpfsRead(hash, file, query, ok, hlOK) ==
    /\ ok \/ ipfsCat(ipfs, IpfsKey(hash, file), TRUE).err = ""
    /\ variant = "ipfs"
    /\ Len(reqs) < MaxIpfsRequests
    /\ LET key == IpfsKey(hash, file)
           r == [NewReq("get", "", file, query, NoPaste)
                   EXCEPT !.hash = hash, !.key = key, !.execs = 1]
           rp == ipfsReadPaste(ipfsCat(ipfs, key, ok))
       IN  reqs' = Append(reqs,
             IF rp.err # "" THEN ReadError(r, rp.err)
             ELSE [ipfsRender([r EXCEPT !.paste = rp.paste], hlOK) EXCEPT !.pc = "done"])
    /\ Fault(ok)
    /\ UNCHANGED <<wp, variant, disk, staging, ipfs>>

\* The hashes a client may ask for: those of the node, and one of no object.
Hashes == {Hash(o) : o \in ipfs} \cup {NoHash}

-----------------------------------------------------------------------------
\* The key of one writePaste call (disk variant), whatever the store holds:
\* h.Has(key) may answer either way.

NoCall == [file |-> << >>, name |-> << >>, key |-> << >>, pc |-> "idle"]

\* name = reg.FindString(name); key = newID() + name
KeyDerive(run) ==
    /\ wp.pc = "call"
    /\ LET name == regFindString(wp.file)
       IN  wp' = [wp EXCEPT !.name = name, !.key = writePasteKey(run, name), !.pc = "has"]
    /\ UNCHANGED <<variant, faults, reqs, disk, staging, ipfs>>

\* h.Has(key) answered true: key = newID() + name
KeyRetry(run) ==
    /\ wp.pc = "has"
    /\ wp' = [wp EXCEPT !.key = writePasteKey(run, wp.name)]
    /\ UNCHANGED <<variant, faults, reqs, disk, staging, ipfs>>

\* h.Has(key) answered false: h.Write(key, data); return
KeyReturn ==
    /\ wp.pc = "has"
    /\ wp' = [wp EXCEPT !.pc = "returned"]
    /\ UNCHANGED <<variant, faults, reqs, disk, staging, ipfs>>

-----------------------------------------------------------------------------

Init ==
    /\ variant \in {"disk", "ipfs"}
    /\ faults = 0
    /\ reqs = << >>
    /\ disk = [d \in Dirs |-> [k \in KeySpace |-> NoPaste]]
    /\ staging = [id \in IDs |-> NoEntry]
    /\ ipfs = {}
    /\ wp = NoCall

Next ==
    \/ \E dir \in Dirs, file \in Names, data \in Payloads, run \in IntnRuns :
          PutStart(dir, file, data, run)
    \/ \E dir \in Dirs, file \in Names : PutBodyError(dir, file)
    \/ \E i \in 1..Len(reqs), run \in IntnRuns : HasLoop(i, run)
    \/ \E i \in 1..Len(reqs), ok \in Outcomes : WriteStep(i, ok)
    \/ \E dir \in Dirs, file \in KeySpace, query \in Queries, ok \in Outcomes,
          hlOK \in BOOLEAN : GetStart(dir, file, query, ok, hlOK)
    \/ \E i \in 1..Len(reqs), ok \in Outcomes : DelRead(i, ok)
    \/ \E i \in 1..Len(reqs) : EraseStep(i)
    \/ \E file \in Names, data \in Payloads, run \in IntnRuns, ok \in Outcomes :
          IpfsPutStart(file, data, run, ok)
    \/ \E file \in Names : IpfsPutBodyError(file)
    \/ \E i \in 1..Len(reqs), ok \in Outcomes : IpfsCreate(i, ok)
    \/ \E i \in 1..Len(reqs), ok \in Outcomes : IpfsWrite(i, ok)
    \/ \E i \in 1..Len(reqs), ok \in Outcomes : IpfsAdd(i, ok)
    \/ \E i \in 1..Len(reqs), ok \in Outcomes : IpfsRemove(i, ok)
    \/ \E hash \in Hashes, file \in Names, query \in Queries, ok \in Outcomes,
          hlOK \in BOOLEAN : IpfsRead(hash, file, query, ok, hlOK)

Spec == Init /\ [][Next]_vars

\* One writePaste call of the disk variant with an in-bounds payload, for
\* every file name up to MaxKeyNameLen.
InitKey ==
    /\ variant = "disk"
    /\ faults = 0
    /\ reqs = << >>
    /\ disk = [d \in Dirs |-> [k \in KeySpace |-> NoPaste]]
    /\ staging = [id \in IDs |-> NoEntry]
    /\ ipfs = {}
    /\ wp \in {[NoCall EXCEPT !.file = f, !.pc = "call"] : f \in KeyNames}

NextKey ==
    \/ \E run \in IntnRuns : KeyDerive(run)
    \/ \E run \in IntnRuns : KeyRetry(run)
    \/ KeyReturn

SpecKey == InitKey /\ [][NextKey]_vars

\* The temp directory of a server started over a store that already holds
\* pastes (the files under basePath outlive the process).
InitTemp ==
    /\ variant = "disk"
    /\ faults = 0
    /\ reqs = << >>
    /\ disk \in {[d \in Dirs |-> IF d = "temp" THEN t ELSE [k \in KeySpace |-> NoPaste]] :
                   t \in [KeySpace -> {NoPaste} \cup {p \in Payloads : writePasteCheck(p) = ""}]}
    /\ staging = [id \in IDs |-> NoEntry]
    /\ ipfs = {}
    /\ wp = NoCall

NextTemp ==
    \/ \E file \in Names, data \in Payloads, run \in IntnRuns :
          PutStart("temp", file, data, run)
    \/ \E i \in 1..Len(reqs), run \in IntnRuns : HasLoop(i, run)
    \/ \E i \in 1..Len(reqs), ok \in Outcomes : WriteStep(i, ok)
    \/ \E file \in KeySpace, query \in Queries, ok \in Outcomes, hlOK \in BOOLEAN :
          GetStart("temp", file, query, ok, hlOK)
    \/ \E i \in 1..Len(reqs), ok \in Outcomes : DelRead(i, ok)
    \/ \E i \in 1..Len(reqs) : EraseStep(i)

SpecTemp == InitTemp /\ [][NextTemp]_vars

\* One put at a time into a store that already holds pastes: the uniqueness
\* loop of writePaste on its own.
InitLoop ==
    /\ variant = "disk"
    /\ faults = 0
    /\ reqs = << >>
    /\ disk \in [Dirs -> [KeySpace -> {NoPaste} \cup {p \in Payloads : writePasteCheck(p) = ""}]]
    /\ staging = [id \in IDs |-> NoEntry]
    /\ ipfs = {}
    /\ wp = NoCall

NextLoop ==
    \/ /\ reqs = << >>
       /\ \E dir \in Dirs, file \in Names, data \in Payloads, run \in IntnRuns :
             PutStart(dir, file, data, run)
    \/ \E i \in 1..Len(reqs), run \in IntnRuns : HasLoop(i, run)
    \/ \E i \in 1..Len(reqs), ok \in Outcomes : WriteStep(i, ok)

\* The request's goroutine keeps running, and rand.Intn gives every
\* identifier again and again.
FairLoop ==
    /\ \A run \in IntnRuns : WF_vars(reqs # << >> /\ HasLoop(1, run))
    /\ WF_vars(reqs # << >> /\ \E ok \in Outcomes : WriteStep(1, ok))

SpecLoop == InitLoop /\ [][NextLoop]_vars /\ FairLoop

-----------------------------------------------------------------------------
\* Properties

Puts == {i \in 1..Len(reqs) : reqs[i].op = "put" /\ reqs[i].data \in Payloads}
Gets == {i \in 1..Len(reqs) : reqs[i].op = "get"}
InBounds(data) == data.len >= 16 /\ data.len <= maxPasteSize

\* A put that was answered with the URL of its key.
Answered(i) ==
    /\ i \in Puts
    /\ reqs[i].pc = "done"
    /\ reqs[i].status = StatusOK
    /\ reqs[i].body.kind = "url"

\* The request that arrived in this step, if one did.
Arrived(i) == Len(reqs') = Len(reqs) + 1 /\ i = Len(reqs')

\* C1: disk variant, no backend failure: writePaste of a payload of 16 to
\* maxPasteSize bytes never returns an error, whatever the file name, and
\* when it returns its key, readPaste of that key on the same store returns
\* exactly the payload, with no error.
C1_RoundTrip ==
    [][ (variant' = "disk" /\ faults' = 0) =>
          \A i \in 1..Len(reqs') :
              LET r == reqs'[i]
              IN  (r.op = "put" /\ r.data \in Payloads /\ InBounds(r.data)) =>
                    /\ r.err = ""
                    /\ (i <= Len(reqs) /\ reqs[i].pc = "write" /\ r.pc = "done") =>
                          /\ r.status = 200
                          /\ r.body.key = r.key
                          /\ readPaste(DiskRead(disk', r, r.body.key, TRUE))
                               = [paste |-> r.data, err |-> ""] ]_vars

\* C1 witness: a payload of exactly maxPasteSize bytes was written and its
\* key answered, and the store holds it under that key.
C1_Witness ==
    /\ variant = "disk" /\ faults = 0
    /\ \E i \in 1..Len(reqs) :
          /\ Answered(i)
          /\ reqs[i].data.len = maxPasteSize
          /\ disk[reqs[i].dir][reqs[i].key] = reqs[i].data

\* C2: both variants: a writePaste of fewer than 16 bytes fails with
\* pasteTooSmall and one of more than maxPasteSize bytes with pasteTooLarge,
\* before any storage step: no identifier is drawn, no key is probed or
\* written, nothing is staged and no subprocess is started; the store, the
\* staging area and the node are as they were.
C2_RejectedBeforeStorage ==
    [][ \A i \in 1..Len(reqs') :
          LET r == reqs'[i]
          IN  (Arrived(i) /\ r.op = "put" /\ r.data \in Payloads /\ ~InBounds(r.data)) =>
                /\ r.err = IF r.data.len < 16 THEN "pasteTooSmall" ELSE "pasteTooLarge"
                /\ r.pc = "done"
                /\ r.key = NoKey' /\ r.tmp = << >> /\ r.execs = 0
                /\ r.body.kind = "err"
                /\ disk' = disk /\ staging' = staging /\ ipfs' = ipfs ]_vars

\* C2 witness: both rejections have happened, in the ipfs variant.
C2_Witness ==
    /\ variant = "ipfs"
    /\ \E i, j \in 1..Len(reqs) :
          /\ reqs[i].err = "pasteTooSmall" /\ reqs[i].data.len = 15
          /\ reqs[j].err = "pasteTooLarge" /\ reqs[j].data.len = maxPasteSize + 1

\* C3: disk variant, writers only, no backend failure: no two answered
\* requests of one directory got the same key, and the store holds under
\* each answered key the bytes of the request that was given it.
C3_ConcurrentWritersDistinct ==
    (variant = "disk" /\ faults = 0 /\ Gets = {}) =>
        \A i, j \in Puts :
            (Answered(i) /\ Answered(j) /\ i # j /\ reqs[i].dir = reqs[j].dir) =>
                /\ reqs[i].key # reqs[j].key
                /\ disk[reqs[i].dir][reqs[i].key] = reqs[i].data

\* Every request arrived after all earlier ones had been answered.
OneAtATime == \A k \in 1..Len(reqs) : reqs[k].alone

\* C4: disk variant, writers only, one at a time, no backend failure: the
\* keys answered in one directory are pairwise distinct and each still
\* resolves to the payload of the call that returned it.
C4_SequentialWritersDistinct ==
    (variant = "disk" /\ faults = 0 /\ Gets = {} /\ OneAtATime) =>
        \A i, j \in Puts :
            (Answered(i) /\ Answered(j) /\ i # j /\ reqs[i].dir = reqs[j].dir) =>
                /\ reqs[i].key # reqs[j].key
                /\ readPaste(DiskRead(disk, reqs[i], reqs[i].key, TRUE))
                     = [paste |-> reqs[i].data, err |-> ""]

\* C4 witness: two writes into one directory, one after the other, answered
\* with different keys, and a third whose first key is taken, so that it has
\* to draw again.
C4_Witness ==
    /\ variant = "disk" /\ faults = 0 /\ OneAtATime /\ Gets = {}
    /\ Len(reqs) = 3
    /\ \A i \in 1..2 : Answered(i) /\ reqs[i].dir = reqs[3].dir
    /\ reqs[3].pc = "has" /\ reqs[3].key = reqs[1].key

\* C5: disk variant, no backend failure, requests one at a time: a GET in
\* temp that is served was served the bytes some put stored under that key;
\* when it has run to completion the key is gone; and the GET that follows it
\* for the same key is answered 404.
C5_SingleUseSequential ==
    (variant = "disk" /\ faults = 0) =>
        \A g \in Gets :
            LET r == reqs[g]
            IN  (r.dir = "temp" /\ r.alone /\ r.pc = "done" /\ r.status = 200) =>
                  /\ \E i \in Puts : /\ i < g /\ Answered(i) /\ reqs[i].dir = "temp"
                                     /\ reqs[i].key = r.file /\ reqs[i].data = r.body.of
                  /\ r.body.kind \in {"raw", "hl"}
                  /\ (g = Len(reqs)) => disk["temp"][r.file] = NoPaste
                  /\ \A h \in Gets :
                        (h = g + 1 /\ reqs[h].alone /\ reqs[h].dir = "temp"
                                   /\ reqs[h].file = r.file) =>
                            /\ reqs[h].status = 404
                            /\ reqs[h].body = ErrorBody("not found")

\* C5 witness: a put into temp, a GET that was served, a second GET of the
\* same key, each after the one before was answered.
C5_Witness ==
    /\ variant = "disk" /\ faults = 0 /\ OneAtATime
    /\ Len(reqs) = 3
    /\ Answered(1) /\ reqs[1].dir = "temp"
    /\ \A g \in {2, 3} : /\ reqs[g].op = "get" /\ reqs[g].dir = "temp"
                         /\ reqs[g].file = reqs[1].key /\ reqs[g].pc = "done"
    /\ reqs[2].status = 200 /\ reqs[2].body.of = reqs[1].data

\* C6: disk variant, no backend failure: of the GETs for a key of temp that
\* one put wrote, at most one is served the content, however they interleave.
C6_ExactlyOneReader ==
    (variant = "disk" /\ faults = 0) =>
        \A k \in KeySpace :
            Cardinality({i \in Puts : reqs[i].dir = "temp" /\ reqs[i].key = k}) <= 1 =>
                Cardinality({g \in Gets : /\ reqs[g].dir = "temp" /\ reqs[g].file = k
                                          /\ reqs[g].status = 200}) <= 1

\* What the backend holds under the key a GET asks for (Absent: nothing).
StoredFor(r) ==
    IF variant = "disk"
    THEN IF disk[r.dir][r.file] = NoPaste THEN Absent ELSE disk[r.dir][r.file]
    ELSE LET c == ipfsCat(ipfs, r.key, TRUE) IN IF c.err # "" THEN Absent ELSE c.bytes

\* C7: both variants: readPaste returns the stored bytes with no error, or
\* pasteNotFound and nothing else; a key the backend does not hold and a
\* backend read that fails are both pasteNotFound, and the handler answers
\* them 404 "not found", never 500.
C7_ReadOutcomes ==
    [][ \A g \in 1..Len(reqs') :
          LET r == reqs'[g]
              failed == StoredFor(r) = Absent \/ faults' # faults
          IN  (Arrived(g) /\ r.op = "get") =>
                /\ r.err \in {"", "pasteNotFound"}
                /\ r.status \in {200, 404}
                /\ failed => /\ r.err = "pasteNotFound"
                             /\ r.status = 404
                             /\ r.body = ErrorBody("not found")
                             /\ r.pc = "done"
                /\ ~failed => /\ r.err = ""
                              /\ r.paste = StoredFor(r)
                              /\ r.status = 200 ]_vars

\* C7 witness: a GET of a key the disk holds, answered 404 because the read
\* failed.
C7_Witness ==
    /\ variant = "disk" /\ faults = 1
    /\ \E g \in Gets :
          /\ g = Len(reqs) /\ \A k \in 1..Len(reqs) : reqs[k].pc = "done"
          /\ disk[reqs[g].dir][reqs[g].file] # NoPaste
          /\ reqs[g].status = 404 /\ reqs[g].err = "pasteNotFound"

\* C8: disk variant, a GET whose read succeeded: in md the body is the
\* Markdown rendering, as HTML, and the highlighter is not run, whatever the
\* query; elsewhere a non-empty query runs the highlighter with the query as
\* lexer and the key as title; elsewhere an empty query gives the stored bytes
\* as text/plain and no subprocess.
C8_RenderSelection ==
    variant = "disk" =>
        \A g \in Gets :
            LET r == reqs[g]
            IN  r.status = 200 =>
                  IF r.dir = "md"
                  THEN /\ r.body.kind = "md" /\ r.body.of = r.paste
                       /\ r.ctype = "text/html; charset=utf-8"
                       /\ ~r.hl.run /\ r.execs = 0
                  ELSE IF r.query # ""
                  THEN /\ r.hl.run /\ r.hl.lexer = r.query /\ r.hl.title = r.file
                       /\ r.execs = 1
                  ELSE /\ r.body.kind = "raw" /\ r.body.of = r.paste
                       /\ r.ctype = "text/plain; charset=utf-8"
                       /\ ~r.hl.run /\ r.execs = 0

\* C8 witness: a paste of md read with a query string, served as Markdown.
C8_Witness ==
    /\ variant = "disk"
    /\ \E g \in Gets : /\ reqs[g].dir = "md" /\ reqs[g].query # ""
                       /\ reqs[g].status = 200 /\ reqs[g].body.kind = "md"

\* The answer of the fallback: the stored bytes, text/plain, status 200.
RawAnswer(r) ==
    /\ r.status = 200
    /\ r.ctype = "text/plain; charset=utf-8"
    /\ r.body.kind = "raw" /\ r.body.of = r.paste

\* C9 as claimed: in either variant a read whose highlighter failed is
\* answered with the stored bytes as text/plain, status 200.
C9_HighlightFallback ==
    \A g \in Gets : (reqs[g].hl.run /\ reqs[g].hl.failed) => RawAnswer(reqs[g])

\* C9 amended: that holds in the disk variant; in the ipfs variant the answer
\* is the text "error: " and the pygmentsError message, as text/html, status
\* 200, and the stored bytes are not sent.
C9_HighlightFallbackByVariant ==
    \A g \in Gets :
        LET r == reqs[g]
        IN  (r.hl.run /\ r.hl.failed) =>
              IF variant = "disk" THEN RawAnswer(r)
              ELSE /\ r.status = 200
                   /\ r.ctype = "text/html; charset=utf-8"
                   /\ r.body.kind = "err" /\ r.body.of = NoPaste
                   /\ r.body.msg =
                        "error: unknown pygements lexar shortcode. view available lexars at https://pygments.org/docs/lexers/"

\* C9 witness: the fallback of the disk variant has happened.
C9_Witness ==
    /\ variant = "disk"
    /\ \E g \in Gets : reqs[g].hl.run /\ reqs[g].hl.failed /\ RawAnswer(reqs[g])

\* The 62 alphanumeric characters.
Alnum ==
    { "A","B","C","D","E","F","G","H","I","J","K","L","M","N","O","P","Q","R",
      "S","T","U","V","W","X","Y","Z",
      "a","b","c","d","e","f","g","h","i","j","k","l","m","n","o","p","q","r",
      "s","t","u","v","w","x","y","z",
      "0","1","2","3","4","5","6","7","8","9" }

\* The extension of a file name: its last dot and the non-dot characters
\* after it, when there is a dot and the name does not end in one.
ExtensionOf(name) ==
    LET dots == {i \in 1..Len(name) : name[i] = "."}
    IN  IF dots = {} THEN << >>
        ELSE LET d == CHOOSE i \in dots : \A j \in dots : j <= i
             IN  IF d = Len(name) THEN << >> ELSE SubSeq(name, d, Len(name))

\* C10: disk variant: the key writePaste returns is 4 characters of the 62
\* alphanumeric ones followed by the extension of the file name it was given.
C10_KeyShape ==
    wp.pc = "returned" =>
        /\ Cardinality(Alnum) = 62
        /\ Len(wp.key) = 4 + Len(ExtensionOf(wp.file))
        /\ \A i \in 1..4 : wp.key[i] \in Alnum
        /\ SubSeq(wp.key, 5, Len(wp.key)) = ExtensionOf(wp.file)

\* C10 witness: a name with two dots, a.a.a, got a key that ends in its last
\* suffix .a alone.
C10_Witness ==
    /\ wp.pc = "returned"
    /\ wp.file = <<"a", ".", "a", ".", "a">>
    /\ Len(wp.key) = 6 /\ SubSeq(wp.key, 5, 6) = <<".", "a">>

\* A put of the ipfs variant whose ipfs add exited with success.
Added(i) == i \in Puts /\ variant = "ipfs" /\ reqs[i].key # NoKey

\* C11: ipfs variant, no failure of the environment: a write whose ipfs add
\* exited with success returns hash/filename for a named upload and hash for
\* an unnamed one, with no error, and the handler answers with the URL of
\* that key and not with an error status.
C11_IpfsKeyResult ==
    faults = 0 =>
        \A i \in Puts :
            LET r == reqs[i]
            IN  (Added(i) /\ r.pc = "done") =>
                  /\ r.key.file = r.file
                  /\ r.err = ""
                  /\ r.status = StatusOK
                  /\ r.body = UrlBody(r.key)

\* C12: ipfs variant, no failure of the environment, one request at a time:
\* when a writePaste call whose ipfs add completed has returned, nothing is
\* left at its staging path: neither the file nor the directory.
C12_StagingRemoved ==
    (faults = 0 /\ OneAtATime) =>
        \A i \in Puts :
            (Added(i) /\ reqs[i].pc = "done") => staging[reqs[i].tmp] = NoEntry

\* C13: both variants: a put is answered with the URL of a key only when the
\* store holds the request's full payload under that key at that moment; a
\* persistence step that failed is answered with an error status.
C13_AnsweredMeansStored ==
    [][ \A i \in 1..Len(reqs) :
          LET r == reqs'[i]
          IN  ( /\ reqs[i].op = "put" /\ reqs[i].pc # "done"
                /\ r.pc = "done" /\ r.status = StatusOK /\ r.body.kind = "url" ) =>
                IF variant = "disk"
                THEN disk'[r.dir][r.key] = r.data
                ELSE ipfsCat(ipfs', r.key, TRUE) = [err |-> "", bytes |-> r.data] ]_vars

\* C17: ipfs variant, no failure of the environment: the key a writePaste
\* call got from ipfs add is the hash of that call's own payload, so that
\* reading it gives the bytes the call was given, however two calls
\* interleave and whatever staging identifiers they draw.
C17_KeyOfOwnPayload ==
    faults = 0 =>
        \A i \in Puts :
            Added(i) =>
                ipfsCat(ipfs, reqs[i].key, TRUE) = [err |-> "", bytes |-> reqs[i].data]

\* C14: disk variant: a paste stored outside temp changes only by the Write
\* of a put into its own directory under its own key; no GET, no deletion in
\* temp and no write elsewhere touches it; and deletePaste runs only on
\* behalf of a GET of temp whose read succeeded.
C14_FrameOutsideTemp ==
    [][ variant = "disk" =>
          /\ \A d \in Dirs \ {"temp"}, k \in KeySpace :
                disk'[d][k] # disk[d][k] =>
                    \E i \in 1..Len(reqs) :
                        /\ reqs[i].op = "put" /\ reqs[i].pc = "write"
                        /\ reqs'[i].pc = "done"
                        /\ reqs[i].dir = d /\ reqs[i].key = k
          /\ \A i \in 1..Len(reqs') :
                reqs'[i].pc \in {"del", "erase"} =>
                    /\ reqs'[i].op = "get" /\ reqs'[i].dir = "temp"
                    /\ reqs'[i].status = StatusOK /\ reqs'[i].err = "" ]_vars

\* C14 witness: a paste stored outside temp was served by a GET that has run
\* to completion, and it is still stored.
C14_Witness ==
    /\ variant = "disk"
    /\ \E i \in Puts, g \in Gets :
          /\ Answered(i) /\ reqs[i].dir # "temp"
          /\ reqs[g].dir = reqs[i].dir /\ reqs[g].file = reqs[i].key
          /\ reqs[g].pc = "done" /\ reqs[g].status = StatusOK
          /\ reqs[g].body.of = reqs[i].data
          /\ disk[reqs[i].dir][reqs[i].key] = reqs[i].data

\* C15: temp directory, no backend failure, at most one writer: the Erase a
\* GET performs removes the content that GET served (or finds the key
\* already gone), never a paste written since.
C15_EraseOnlyServed ==
    [][ (faults = 0 /\ Cardinality(Puts) <= 1) =>
          \A i \in 1..Len(reqs) :
              (reqs[i].pc = "erase" /\ reqs'[i].pc = "done") =>
                  disk[reqs[i].dir][reqs[i].file] \in {NoPaste, reqs[i].paste} ]_vars

\* The put is in the uniqueness loop and the directory holds, or does not
\* hold, a free identifier with the extension of its name.
InLoop == Len(reqs) = 1 /\ reqs[1].pc = "has"
FreeKeys ==
    {run \in IntnRuns : disk[reqs[1].dir][newID(run) \o reqs[1].name] = NoPaste}

\* C16: disk variant, one writer, every identifier drawn again and again: a
\* writePaste call in its loop returns a key, and the handler answers with
\* its URL, whenever some identifier with the extension is free; when none
\* is, the call stays in the loop and writes nothing.
C16_LoopTermination ==
    /\ (InLoop /\ FreeKeys # {})
         ~> (Len(reqs) = 1 /\ reqs[1].pc = "done" /\ reqs[1].body = UrlBody(reqs[1].key))
    /\ [][ (InLoop /\ FreeKeys = {}) => (reqs'[1].pc = "has" /\ disk' = disk) ]_vars

\* C16 witness: the call has returned a key while another identifier of the
\* directory, with the same extension, was taken.
C16_Witness ==
    /\ Len(reqs) = 1 /\ reqs[1].pc = "done" /\ reqs[1].body = UrlBody(reqs[1].key)
    /\ disk[reqs[1].dir][reqs[1].key] = reqs[1].data
    /\ \E run \in IntnRuns :
          /\ newID(run) \o reqs[1].name # reqs[1].key
          /\ disk[reqs[1].dir][newID(run) \o reqs[1].name] # NoPaste

====
